---- MODULE Spec2Model ----
(***************************************************************************)
(* cosmgroups: the tables of state.rs and new_state.rs over one ordered    *)
(* byte-keyed Storage, the indexed membership store of new_state.rs, the   *)
(* group identifier allocator, and the counter of contract.rs with its     *)
(* instantiate, execute and query entry points.                            *)
(*                                                                         *)
(* Storage keys are byte strings (sequences of 0..255) built exactly as    *)
(* cw-storage-plus builds them: every namespace and every key part but the *)
(* last carries a two-byte big-endian length, the last part is raw.        *)
(* Stored values are JSON documents: a number, or an object given as the   *)
(* sequence of its <<field, value>> pairs in declaration order.            *)
(***************************************************************************)
EXTENDS Integers, Sequences, FiniteSets, TLC

VARIABLES
    store,   \* the Storage: a function from byte-string keys to JSON values
    last,    \* the last call made on the store and what it returned
    issued,  \* the identifiers next_group_counter has returned, in order
    tally    \* the count the State was last set to, by instantiate or by a
             \* Reset that succeeded, and the Increments that succeeded since

vars == <<store, last, issued, tally>>

-----------------------------------------------------------------------------
(* Bounds of the model.                                                    *)

\* save_group is not called once GROUP_COUNTER holds MaxGroups.
MaxGroups == 2

\* Increment is not executed once MaxIncrements of them have succeeded since
\* the count was last set.
MaxIncrements == 2

-----------------------------------------------------------------------------
(* Results and options.                                                    *)

Ok(v) == <<"Ok", v>>
Err(e) == <<"Err", e>>
IsOk(r) == r[1] = "Ok"
None == <<>>
Some(v) == <<v>>

-----------------------------------------------------------------------------
(* Namespaces: the bytes of the string literals the tables are declared    *)
(* with.                                                                   *)

MembershipBytes == <<109, 101, 109, 98, 101, 114, 115, 104, 105, 112>>

STATE_ITEM == <<115, 116, 97, 116, 101>>
PEOPLE == <<112, 101, 111, 112, 108, 101>>
GROUPS == <<103, 114, 111, 117, 112, 115>>
MEMBERSHIP_STATUSES ==
    MembershipBytes \o <<95, 115, 116, 97, 116, 117, 115, 101, 115>>
MEMBERSHIPS == MembershipBytes \o <<115>>
NEW_PEOPLE == <<110, 101, 119, 95, 112, 101, 111, 112, 108, 101>>
GROUP_COUNTER == <<103, 114, 111, 117, 112, 95, 99, 111, 117, 110, 116, 101, 114>>
NEW_GROUPS == <<103, 114, 111, 117, 112, 115>>
pk_namespace == MembershipBytes

\* The namespace string each MultiIndex of memberships() is built with.
idx_namespace(index) ==
    CASE index = "person" -> MembershipBytes \o <<95, 95, 112, 101, 114, 115, 111, 110>>
      [] index = "group" -> MembershipBytes \o <<95, 95, 103, 114, 111, 117, 112>>
      [] index = "role" -> MembershipBytes \o <<95, 95, 114, 111, 108, 101>>

IndexNames == {"person", "group", "role"}

-----------------------------------------------------------------------------
(* Key codec.                                                              *)

RECURSIVE Flatten(_)
Flatten(ss) == IF ss = <<>> THEN <<>> ELSE Head(ss) \o Flatten(Tail(ss))

\* No length is written before a part.
encode_length_none(part) == <<>>

\* Two-byte big-endian length of a namespace or of a non-final key part.
encode_length(part) == <<Len(part) \div 256, Len(part) % 256>>

namespaces_with_key(namespaces, key) ==
    Flatten([i \in 1..Len(namespaces) |->
                encode_length(namespaces[i]) \o namespaces[i]]) \o key

\* PrimaryKey::joined_key: every part but the last length-prefixed.
joined_key(parts) ==
    namespaces_with_key(SubSeq(parts, 1, Len(parts) - 1), parts[Len(parts)])

\* The storage key of Map(namespace) at a key with the given parts.
MapKey(namespace, parts) ==
    namespaces_with_key(<<namespace>> \o SubSeq(parts, 1, Len(parts) - 1),
                        parts[Len(parts)])

\* The storage key of Item(namespace): the namespace bytes themselves.
ItemKey(namespace) == namespace

\* U64Key::new(n): the eight big-endian bytes of n (n < 2^31 here, so the
\* four high bytes are zero).
\* The same bytes, least significant first.
U64KeyLittleEndian(n) ==
    [i \in 1..8 |-> IF i <= 4 THEN (n \div (256 ^ (i - 1))) % 256 ELSE 0]

U64Key(n) == [i \in 1..8 |-> IF i <= 4 THEN 0 ELSE (n \div (256 ^ (8 - i))) % 256]

\* The discriminants moved on by one.
RoleKeyShifted(role) ==
    CASE role = "User" -> <<<<1>>>>
      [] role = "Admin" -> <<<<2>>>>
      [] role = "SuperAdmin" -> <<<<0>>>>

\* PrimaryKey for &Role: one part of one byte.
RoleKey(role) ==
    CASE role = "User" -> <<<<0>>>>
      [] role = "Admin" -> <<<<1>>>>
      [] role = "SuperAdmin" -> <<<<2>>>>

Roles == {"User", "Admin", "SuperAdmin"}

IsPrefix(p, k) == Len(p) <= Len(k) /\ SubSeq(k, 1, Len(p)) = p

\* Lexicographic order on byte strings, the order of the Storage.
LexLess(a, b) ==
    \/ Len(a) < Len(b) /\ SubSeq(b, 1, Len(a)) = a
    \/ \E i \in 1..(IF Len(a) < Len(b) THEN Len(a) ELSE Len(b)) :
          /\ SubSeq(a, 1, i - 1) = SubSeq(b, 1, i - 1)
          /\ a[i] < b[i]

RECURSIVE Ascending(_)
Ascending(S) ==
    IF S = {} THEN <<>>
    ELSE LET m == CHOOSE x \in S : \A y \in S \ {x} : LexLess(x, y)
         IN <<m>> \o Ascending(S \ {m})

-----------------------------------------------------------------------------
(* JSON values.                                                            *)

JNum(n) == [t |-> "num", v |-> n]
JObj(pairs) == [t |-> "obj", v |-> pairs]

HasField(j, f) == \E i \in 1..Len(j.v) : j.v[i][1] = f
Field(j, f) == j.v[CHOOSE i \in 1..Len(j.v) : j.v[i][1] = f][2]

from_slice_num(j) == IF j.t = "num" THEN Ok(j.v) ELSE Err("ParseErr")

\* Deserialising a struct: every field of the struct must be present, fields
\* the struct does not name are skipped.
from_slice_struct(j, fields) ==
    IF j.t = "obj" /\ \A f \in fields : HasField(j, f)
    THEN Ok([f \in fields |-> Field(j, f)])
    ELSE Err("ParseErr")

NewPersonFields == {"name", "age"}
NewGroupFields == {"name"}
NewMembershipFields == {"person", "group_id", "role"}

to_vec_NewPerson(p) == JObj(<< <<"name", p.name>>, <<"age", p.age>> >>)
to_vec_NewGroup(g) == JObj(<< <<"name", g.name>> >>)
to_vec_NewMembership(m) ==
    JObj(<< <<"person", m.person>>, <<"group_id", m.group_id>>, <<"role", m.role>> >>)

-----------------------------------------------------------------------------
(* Storage (MockStorage: an ordered map from bytes to bytes).              *)

StorageGet(s, k) == IF k \in DOMAIN s THEN Some(s[k]) ELSE None
\* The value is written only where the key is absent.
StorageSetIfAbsent(s, k, v) ==
    [x \in (DOMAIN s) \cup {k} |-> IF x \in DOMAIN s THEN s[x] ELSE v]

StorageSet(s, k, v) == [x \in (DOMAIN s) \cup {k} |-> IF x = k THEN v ELSE s[x]]
StorageRemove(s, k) == [x \in (DOMAIN s) \ {k} |-> s[x]]

\* Prefix::range, ascending, unbounded: the entries whose key starts with the
\* prefix, in key order, each key with the prefix cut off.
PrefixRange(s, prefix) ==
    LET keys == Ascending({k \in DOMAIN s : IsPrefix(prefix, k)})
    IN [i \in 1..Len(keys) |->
           <<SubSeq(keys[i], Len(prefix) + 1, Len(keys[i])), s[keys[i]]>>]

\* Map::may_load / Item::may_load, given the decoder of the value type.
MayLoadStruct(s, key, fields) ==
    IF key \in DOMAIN s
    THEN LET r == from_slice_struct(s[key], fields)
         IN IF IsOk(r) THEN Ok(Some(r[2])) ELSE r
    ELSE Ok(None)

MayLoadNum(s, key) ==
    IF key \in DOMAIN s
    THEN LET r == from_slice_num(s[key])
         IN IF IsOk(r) THEN Ok(Some(r[2])) ELSE r
    ELSE Ok(None)

\* Map::load: NotFound when the key is absent.
LoadStruct(s, key, fields) ==
    IF key \in DOMAIN s THEN from_slice_struct(s[key], fields) ELSE Err("NotFound")

-----------------------------------------------------------------------------
(* The values the operations are called with.                              *)

addr1 == <<97, 100, 100, 114, 49>>
addr2 == <<97, 100, 100, 114, 50>>
Addrs == {addr1, addr2}

\* index_string(addr.as_str()): the bytes of the string.
index_string(addr) == addr

GroupIds == 1..MaxGroups
GroupNames == {"g1", "g2"}
NewPersons == {[name |-> "p1", age |-> 12]}
NewGroups == {[name |-> n] : n \in GroupNames}
NewMemberships == [person : Addrs, group_id : GroupIds, role : Roles]

\* The u64 identifiers memberships are saved under; 256 differs from 1 in a
\* higher byte than the lowest.
MembershipIds == {1, 256}

-----------------------------------------------------------------------------
(* The identifier allocator and the group table.                           *)

\* GROUP_COUNTER.may_load(store)?.unwrap_or_default(), for a counter that
\* decodes.
CounterValue(s) ==
    LET loaded == MayLoadNum(s, ItemKey(GROUP_COUNTER))
    IN IF IsOk(loaded) /\ loaded[2] # None THEN loaded[2][1] ELSE 0

\* The identifier is returned and the counter is not written back.
next_group_counter_unsaved(s) ==
    LET loaded == MayLoadNum(s, ItemKey(GROUP_COUNTER))
    IN IF ~IsOk(loaded) THEN <<loaded, s>>
       ELSE <<Ok((IF loaded[2] = None THEN 0 ELSE loaded[2][1]) + 1), s>>

\* next_group_counter: <<result, store after>>.
next_group_counter(s) ==
    LET loaded == MayLoadNum(s, ItemKey(GROUP_COUNTER))
    IN IF ~IsOk(loaded) THEN <<loaded, s>>
       ELSE LET id == (IF loaded[2] = None THEN 0 ELSE loaded[2][1]) + 1
            IN <<Ok(id), StorageSet(s, ItemKey(GROUP_COUNTER), JNum(id))>>

\* The group is stored under the identifier before the one allocated.
save_group_key_before(s, group) ==
    LET n == next_group_counter(s)
    IN IF ~IsOk(n[1]) THEN n
       ELSE <<Ok(n[1][2]),
              StorageSet(n[2], MapKey(NEW_GROUPS, <<U64Key(n[1][2] - 1)>>),
                         to_vec_NewGroup(group))>>

\* save_group: <<result, store after>>.
save_group(s, group) ==
    LET n == next_group_counter(s)
    IN IF ~IsOk(n[1]) THEN n
       ELSE <<Ok(n[1][2]),
              StorageSet(n[2], MapKey(NEW_GROUPS, <<U64Key(n[1][2])>>),
                         to_vec_NewGroup(group))>>

-----------------------------------------------------------------------------
(* The indexed membership store.                                           *)

\* The index function each MultiIndex of memberships() is built with: the
\* parts of the index key of record d stored under primary key k.
IndexFn(index, d, k) ==
    CASE index = "person" -> <<joined_key(<<d.person>>), k>>
      [] index = "group" -> <<U64Key(d.group_id), k>>
      [] index = "role" -> <<joined_key(RoleKey(d.role)), k>>

\* Every declared index is listed.
get_indexes_all == <<"person", "group", "role">>

\* MembershipIndexes::get_indexes: the indexes IndexedMap maintains, in order.
get_indexes == <<"person", "group">>

\* MultiIndex::save / MultiIndex::remove: the entry's value is the length of
\* the primary key.
MultiIndexSave(s, index, pk, data) ==
    StorageSet(s, MapKey(idx_namespace(index), IndexFn(index, data, pk)), JNum(Len(pk)))

\* The entry is looked for under the attribute value alone, without the
\* primary key.
MultiIndexRemoveByValue(s, index, pk, old_data) ==
    StorageRemove(s, MapKey(idx_namespace(index), <<IndexFn(index, old_data, pk)[1]>>))

MultiIndexRemove(s, index, pk, old_data) ==
    StorageRemove(s, MapKey(idx_namespace(index), IndexFn(index, old_data, pk)))

\* The old record's entry leaves the first index only.
RemoveFromFirstIndex(s, indexes, pk, old_data) ==
    IF indexes = <<>> THEN s
    ELSE MultiIndexRemove(s, Head(indexes), pk, old_data)

RECURSIVE RemoveFromIndexes(_, _, _, _)
RemoveFromIndexes(s, indexes, pk, old_data) ==
    IF indexes = <<>> THEN s
    ELSE RemoveFromIndexes(MultiIndexRemove(s, Head(indexes), pk, old_data),
                           Tail(indexes), pk, old_data)

RECURSIVE SaveToIndexes(_, _, _, _)
SaveToIndexes(s, indexes, pk, data) ==
    IF indexes = <<>> THEN s
    ELSE SaveToIndexes(MultiIndexSave(s, Head(indexes), pk, data),
                       Tail(indexes), pk, data)

\* The new record's entries are written and the old record's entries stay.
IndexedMapReplaceKeepsOld(s, pk, data, old_data) ==
    IF data = None
    THEN StorageRemove(IF old_data = None THEN s
                       ELSE RemoveFromIndexes(s, get_indexes, pk, old_data[1]),
                       MapKey(pk_namespace, <<pk>>))
    ELSE StorageSet(SaveToIndexes(s, get_indexes, pk, data[1]),
                    MapKey(pk_namespace, <<pk>>), to_vec_NewMembership(data[1]))

\* IndexedMap::replace: the old record's entries leave every index of
\* get_indexes, then the new record's entries enter them and the record is
\* written; with no new record the primary entry is removed.
IndexedMapReplace(s, pk, data, old_data) ==
    LET s1 == IF old_data = None THEN s
              ELSE RemoveFromIndexes(s, get_indexes, pk, old_data[1])
    IN IF data = None
       THEN StorageRemove(s1, MapKey(pk_namespace, <<pk>>))
       ELSE StorageSet(SaveToIndexes(s1, get_indexes, pk, data[1]),
                       MapKey(pk_namespace, <<pk>>), to_vec_NewMembership(data[1]))

\* memberships().save(store, pk, data): <<result, store after>>.
IndexedMapSave(s, pk, data) ==
    LET old == MayLoadStruct(s, MapKey(pk_namespace, <<pk>>), NewMembershipFields)
    IN IF ~IsOk(old) THEN <<old, s>>
       ELSE <<Ok(<<>>), IndexedMapReplace(s, pk, Some(data), old[2])>>

\* The record is read with load, so an absent key is an error.
IndexedMapRemoveLoads(s, pk) ==
    LET old == LoadStruct(s, MapKey(pk_namespace, <<pk>>), NewMembershipFields)
    IN IF ~IsOk(old) THEN <<old, s>>
       ELSE <<Ok(<<>>), IndexedMapReplace(s, pk, None, Some(old[2]))>>

\* memberships().remove(store, pk): <<result, store after>>.
IndexedMapRemove(s, pk) ==
    LET old == MayLoadStruct(s, MapKey(pk_namespace, <<pk>>), NewMembershipFields)
    IN IF ~IsOk(old) THEN <<old, s>>
       ELSE <<Ok(<<>>), IndexedMapReplace(s, pk, None, old[2])>>

\* memberships().load(store, pk).
IndexedMapLoad(s, pk) == LoadStruct(s, MapKey(pk_namespace, <<pk>>), NewMembershipFields)

\* One entry of an index scan: the primary key is the last pk_len bytes of
\* the entry's key, the record is read from the primary namespace.
DeserializeMultiKv(s, kv) ==
    LET n == from_slice_num(kv[2])
    IN IF ~IsOk(n) THEN n
       ELSE LET pk == SubSeq(kv[1], Len(kv[1]) - n[2] + 1, Len(kv[1]))
                full_key == namespaces_with_key(<<pk_namespace>>, pk)
            IN IF full_key \notin DOMAIN s THEN Err("pk not found")
               ELSE LET v == from_slice_struct(s[full_key], NewMembershipFields)
                    IN IF IsOk(v) THEN Ok(<<pk, v[2]>>) ELSE v

\* memberships().idx.<index>.prefix(p).range(store, None, None, Ascending)
\* collected into a StdResult<Vec<_>>: the first error, or every entry.
IndexScan(s, index, p) ==
    LET raw == PrefixRange(s, namespaces_with_key(<<idx_namespace(index), p>>, <<>>))
        items == [i \in 1..Len(raw) |-> DeserializeMultiKv(s, raw[i])]
    IN IF \E i \in 1..Len(items) : ~IsOk(items[i])
       THEN items[CHOOSE i \in 1..Len(items) :
                     ~IsOk(items[i]) /\ \A j \in 1..(i - 1) : IsOk(items[j])]
       ELSE Ok([i \in 1..Len(items) |-> items[i][2]])

\* The scan prefixes the callers pass for a person, a group id and a role.
PersonPrefix(addr) == joined_key(<<addr>>)
GroupPrefix(id) == U64Key(id)
RolePrefix(role) == joined_key(RoleKey(role))

-----------------------------------------------------------------------------
(* Operations.                                                             *)

\* A call: the table it is made on, its name, the key it was given, whether
\* the table held that key when it was made, and its result.
Call(table, op, key, existed, res) ==
    [table |-> table, op |-> op, key |-> key, existed |-> existed, res |-> res]

PrimaryKeyOf(id) == joined_key(<<U64Key(id)>>)

Init ==
    /\ store = <<>>
    /\ last = Call("none", "new", <<>>, FALSE, Ok(<<>>))
    /\ issued = <<>>
    /\ tally = None

\* NEW_PEOPLE.save(store, &index_string(addr), &person)
NewPeopleSave(addr, person) ==
    LET key == MapKey(NEW_PEOPLE, <<index_string(addr)>>)
    IN /\ store' = StorageSet(store, key, to_vec_NewPerson(person))
       /\ last' = Call("new_people", "put", index_string(addr), key \in DOMAIN store, Ok(<<>>))
       /\ UNCHANGED <<issued, tally>>

\* save_group(store, &group)
SaveGroup(group) ==
    /\ CounterValue(store) < MaxGroups
    /\ LET r == save_group(store, group)
       IN /\ store' = r[2]
          /\ last' = Call("new_groups", "save_group", <<>>,
                          IsOk(r[1]) /\ MapKey(NEW_GROUPS, <<U64Key(r[1][2])>>) \in DOMAIN store,
                          r[1])
          /\ issued' = IF IsOk(r[1]) THEN Append(issued, r[1][2]) ELSE issued
          /\ UNCHANGED tally

\* memberships().save(store, U64Key::new(id).joined_key().as_slice(), &m)
MembershipSave(id, m) ==
    LET pk == PrimaryKeyOf(id)
        r == IndexedMapSave(store, pk, m)
    IN /\ store' = r[2]
       /\ last' = Call("membership", "save", pk, MapKey(pk_namespace, <<pk>>) \in DOMAIN store, r[1])
       /\ UNCHANGED <<issued, tally>>

\* memberships().remove(store, U64Key::new(id).joined_key().as_slice())
MembershipRemove(id) ==
    LET pk == PrimaryKeyOf(id)
        r == IndexedMapRemove(store, pk)
    IN /\ store' = r[2]
       /\ last' = Call("membership", "remove", pk, MapKey(pk_namespace, <<pk>>) \in DOMAIN store, r[1])
       /\ UNCHANGED <<issued, tally>>

\* The indexed membership store on its own.
Next ==
    \/ \E id \in MembershipIds, m \in NewMemberships : MembershipSave(id, m)
    \/ \E id \in MembershipIds : MembershipRemove(id)

Spec == Init /\ [][Next]_vars

\* Persons, groups and memberships created side by side.
CreateIds == {1}

NextCreate ==
    \/ \E addr \in Addrs, person \in NewPersons : NewPeopleSave(addr, person)
    \/ \E group \in NewGroups : SaveGroup(group)
    \/ \E id \in CreateIds, m \in NewMemberships : MembershipSave(id, m)
    \/ \E id \in CreateIds : MembershipRemove(id)

SpecCreate == Init /\ [][NextCreate]_vars

-----------------------------------------------------------------------------
(* What the store holds, read without the indexes.                         *)

PrimaryPrefix == namespaces_with_key(<<pk_namespace>>, <<>>)

\* The primary keys present in the membership store.
PrimaryKeys(s) ==
    {SubSeq(k, Len(PrimaryPrefix) + 1, Len(k)) :
        k \in {x \in DOMAIN s : IsPrefix(PrimaryPrefix, x)}}

RecordAt(s, pk) == IndexedMapLoad(s, pk)[2]

\* The identifiers any membership is saved under here (the test's 1 and 2
\* among them).
KnownIds == MembershipIds \cup {1, 2}

StoredIds(s) == {id \in KnownIds : PrimaryKeyOf(id) \in PrimaryKeys(s)}

\* The storage keys of the entries of an index, and the primary key an entry
\* refers to.
IndexEntryKeys(s, index) ==
    {k \in DOMAIN s : IsPrefix(namespaces_with_key(<<idx_namespace(index)>>, <<>>), k)}

EntryPk(s, k) == SubSeq(k, Len(k) - s[k].v + 1, Len(k))

\* The attribute an index is about, the values it ranges over here, and the
\* scan prefix a caller passes for a value.
AttrValue(index, d) ==
    CASE index = "person" -> d.person
      [] index = "group" -> d.group_id
      [] index = "role" -> d.role

IndexValues(index) ==
    CASE index = "person" -> Addrs
      [] index = "group" -> GroupIds
      [] index = "role" -> Roles

PrefixOf(index, v) ==
    CASE index = "person" -> PersonPrefix(v)
      [] index = "group" -> GroupPrefix(v)
      [] index = "role" -> RolePrefix(v)

ScanFor(s, index, v) == IndexScan(s, index, PrefixOf(index, v))

\* The primary keys a scan returns (none when it fails).
ScanKeys(s, index, v) ==
    LET r == ScanFor(s, index, v)
    IN IF IsOk(r) THEN {r[2][j][1] : j \in 1..Len(r[2])} ELSE {}

RECURSIVE SortedIds(_)
SortedIds(S) ==
    IF S = {} THEN <<>>
    ELSE LET m == CHOOSE x \in S : \A y \in S : x <= y
         IN <<m>> \o SortedIds(S \ {m})

\* The stored memberships whose attribute is v, by ascending identifier.
StoredWith(s, index, v) ==
    LET ids == SortedIds({id \in StoredIds(s) :
                            AttrValue(index, RecordAt(s, PrimaryKeyOf(id))) = v})
    IN [j \in 1..Len(ids) |->
           <<PrimaryKeyOf(ids[j]), RecordAt(s, PrimaryKeyOf(ids[j]))>>]

-----------------------------------------------------------------------------
(* The scenario of test_memberships: three persons, two groups, M1 under   *)
(* id 1 and M2 under id 2; then M2 removed.                                *)

addr3 == <<97, 100, 100, 114, 51>>
M1 == [person |-> addr1, group_id |-> 1, role |-> "User"]
M2 == [person |-> addr2, group_id |-> 1, role |-> "Admin"]

ScenarioGroups ==
    LET p1 == StorageSet(<<>>, MapKey(NEW_PEOPLE, <<index_string(addr1)>>),
                         to_vec_NewPerson([name |-> "p1", age |-> 12]))
        p2 == StorageSet(p1, MapKey(NEW_PEOPLE, <<index_string(addr2)>>),
                         to_vec_NewPerson([name |-> "p2", age |-> 12]))
        p3 == StorageSet(p2, MapKey(NEW_PEOPLE, <<index_string(addr3)>>),
                         to_vec_NewPerson([name |-> "p3", age |-> 12]))
        g1 == save_group(p3, [name |-> "g1"])
    IN save_group(g1[2], [name |-> "g2"])[2]

ScenarioStore ==
    LET m1 == IndexedMapSave(ScenarioGroups, PrimaryKeyOf(1), M1)
    IN IndexedMapSave(m1[2], PrimaryKeyOf(2), M2)[2]

ScenarioAfterDelete == IndexedMapRemove(ScenarioStore, PrimaryKeyOf(2))[2]

-----------------------------------------------------------------------------
(* Claims about the indexed membership store.                              *)

\* The entries of one index are exactly one entry per stored membership,
\* filed under that membership's current attribute value.
IndexConsistentFor(s, index) ==
    /\ \A pk \in PrimaryKeys(s) :
          {k \in IndexEntryKeys(s, index) : EntryPk(s, k) = pk}
             = {MapKey(idx_namespace(index), IndexFn(index, RecordAt(s, pk), pk))}
    /\ \A k \in IndexEntryKeys(s, index) : EntryPk(s, k) \in PrimaryKeys(s)

\* C1: in every reachable state, each of the person, group and role indexes
\* holds exactly one entry per stored Membership, under that Membership's
\* current attribute value and primary key, and no entry for an absent
\* primary key.
C1_IndexConsistency == \A index \in IndexNames : IndexConsistentFor(store, index)

\* C2: every stored Membership with role Admin is returned by the role scan
\* for Admin (prefix byte 1), and in the test's scenario that scan returns
\* exactly [M2].
C2_AdminScanFindsAdmins ==
    (last.op = "save" /\ RecordAt(store, last.key).role = "Admin") =>
       /\ \E j \in 1..Len(IndexScan(store, "role", <<1>>)[2]) :
             IndexScan(store, "role", <<1>>)[2][j] = <<last.key, RecordAt(store, last.key)>>
       /\ IndexScan(ScenarioStore, "role", <<1>>) = Ok(<< <<PrimaryKeyOf(2), M2>> >>)

\* C3: the person scan for p and the group scan for g return exactly the
\* stored Memberships of p and of g, each once, by ascending u64 key; in the
\* scenario the group scan for G1 is [M1, M2] and the person scan for addr1
\* is [M1].
C3_PersonAndGroupScans ==
    /\ \A p \in Addrs : ScanFor(store, "person", p) = Ok(StoredWith(store, "person", p))
    /\ \A g \in GroupIds : ScanFor(store, "group", g) = Ok(StoredWith(store, "group", g))
    /\ IndexScan(ScenarioStore, "group", U64Key(1))
          = Ok(<< <<PrimaryKeyOf(1), M1>>, <<PrimaryKeyOf(2), M2>> >>)
    /\ IndexScan(ScenarioStore, "person", joined_key(<<addr1>>))
          = Ok(<< <<PrimaryKeyOf(1), M1>> >>)

\* Two memberships of one group are stored, under 1 and under 256, and the
\* group scan has returned both.
C3_Witness ==
    /\ last.op = "save"
    /\ StoredIds(store) = {1, 256}
    /\ \E g \in GroupIds : Len(ScanFor(store, "group", g)[2]) = 2

\* C4: a scan of any index for a value other than a stored Membership's
\* current value of that attribute never returns that Membership's key.
C4_IndexExclusivity ==
    \A pk \in PrimaryKeys(store), index \in IndexNames :
       \A v \in IndexValues(index) \ {AttrValue(index, RecordAt(store, pk))} :
          pk \notin ScanKeys(store, index, v)

\* A membership has been overwritten and another one with a different
\* person and group is stored beside it.
C4_Witness ==
    /\ last.op = "save" /\ last.existed
    /\ \E a, b \in PrimaryKeys(store) :
          /\ RecordAt(store, a).person # RecordAt(store, b).person
          /\ RecordAt(store, a).group_id # RecordAt(store, b).group_id
          /\ ScanKeys(store, "person", RecordAt(store, a).person) = {a}

\* C5: overwriting the Membership at key k with a record whose role changed
\* from v_old to v_new leaves k out of the role scan for v_old and puts it in
\* the role scan for v_new.
C5_UpdateMovesRoleEntry ==
    [][\A id \in MembershipIds :
          LET pk == PrimaryKeyOf(id)
          IN (/\ last'.op = "save" /\ last'.key = pk /\ last'.existed
              /\ RecordAt(store, pk).role # RecordAt(store', pk).role)
             => /\ pk \notin ScanKeys(store', "role", RecordAt(store, pk).role)
                /\ pk \in ScanKeys(store', "role", RecordAt(store', pk).role)]_vars

\* C6: once the Membership at key k is removed, load of k reports NotFound,
\* no scan of any index for any value returns k, and every scan returns what
\* it returned before less k; in the scenario, after M2 is removed the group
\* scan for G1 is [M1] and the role scan for Admin is empty.
C6_DeleteRemovesEntries ==
    [][/\ IndexScan(ScenarioAfterDelete, "group", U64Key(1)) = Ok(<< <<PrimaryKeyOf(1), M1>> >>)
       /\ IndexScan(ScenarioAfterDelete, "role", <<1>>) = Ok(<<>>)
       /\ \A id \in MembershipIds :
             LET pk == PrimaryKeyOf(id)
                 Other(e) == e[1] # pk
             IN (last'.op = "remove" /\ last'.key = pk /\ last'.existed)
                => /\ IndexedMapLoad(store', pk) = Err("NotFound")
                   /\ \A index \in IndexNames : \A v \in IndexValues(index) :
                         /\ IsOk(ScanFor(store, index, v))
                         /\ ScanFor(store', index, v)
                               = Ok(SelectSeq(ScanFor(store, index, v)[2], Other))]_vars

\* A stored membership has been removed while another one of the same group
\* stays.
C6_Witness ==
    /\ last.op = "remove" /\ last.existed /\ IsOk(last.res)
    /\ \E pk \in PrimaryKeys(store) :
          pk # last.key /\ pk \in ScanKeys(store, "group", RecordAt(store, pk).group_id)

-----------------------------------------------------------------------------
(* Claims about identifiers and about creation.                            *)

StrictlyIncreasing(seq) == \A i, j \in 1..Len(seq) : i < j => seq[i] < seq[j]

\* The identifiers under which NEW_GROUPS holds a group.
GroupKeysPresent(s) == {id \in 1..(MaxGroups + 1) : MapKey(NEW_GROUPS, <<U64Key(id)>>) \in DOMAIN s}

C10_ReferentialIntegrity ==
    (last.op = "save" /\ last.key \in PrimaryKeys(store)) =>
       LET m == RecordAt(store, last.key)
       IN /\ MapKey(NEW_PEOPLE, <<index_string(m.person)>>) \in DOMAIN store
          /\ MapKey(NEW_GROUPS, <<U64Key(m.group_id)>>) \in DOMAIN store

-----------------------------------------------------------------------------
(* Every declared table side by side.                                      *)

PersonFields == {"name", "age", "membership_ids"}
GroupFields == {"name", "membership_ids"}
MembershipStatusFields == {"status", "membership_ids"}
MembershipFields == {"person_id", "group_id", "membership_status_id"}
StateFields == {"count", "owner"}

\* The Map tables: the namespace each is declared with and the fields of
\* its record type.
MapTables == {"people", "groups", "membership_statuses", "memberships",
              "new_people", "new_groups"}

TableNamespace(table) ==
    CASE table = "people" -> PEOPLE
      [] table = "groups" -> GROUPS
      [] table = "membership_statuses" -> MEMBERSHIP_STATUSES
      [] table = "memberships" -> MEMBERSHIPS
      [] table = "new_people" -> NEW_PEOPLE
      [] table = "new_groups" -> NEW_GROUPS
      [] table = "membership" -> pk_namespace
      [] table = "membership__person" -> idx_namespace("person")
      [] table = "membership__group" -> idx_namespace("group")
      [] table = "membership__role" -> idx_namespace("role")
      [] table = "state" -> STATE_ITEM
      [] table = "group_counter" -> GROUP_COUNTER

TableFields(table) ==
    CASE table = "people" -> PersonFields
      [] table = "groups" -> GroupFields
      [] table = "membership_statuses" -> MembershipStatusFields
      [] table = "memberships" -> MembershipFields
      [] table = "new_people" -> NewPersonFields
      [] table = "new_groups" -> NewGroupFields
      [] table = "membership" -> NewMembershipFields
      [] table = "state" -> StateFields

\* serde_json::to_vec of the records of state.rs.
to_vec_Person(p) ==
    JObj(<< <<"name", p.name>>, <<"age", p.age>>, <<"membership_ids", p.membership_ids>> >>)
to_vec_Group(g) == JObj(<< <<"name", g.name>>, <<"membership_ids", g.membership_ids>> >>)
to_vec_MembershipStatus(m) ==
    JObj(<< <<"status", m.status>>, <<"membership_ids", m.membership_ids>> >>)
to_vec_Membership(m) ==
    JObj(<< <<"person_id", m.person_id>>, <<"group_id", m.group_id>>,
            <<"membership_status_id", m.membership_status_id>> >>)
to_vec_State(st) == JObj(<< <<"count", st.count>>, <<"owner", st.owner>> >>)

\* Map::save and Map::remove on a table whose key is one byte string.
MapSave(s, table, key, json) == StorageSet(s, MapKey(TableNamespace(table), <<key>>), json)
MapRemove(s, table, key) == StorageRemove(s, MapKey(TableNamespace(table), <<key>>))

\* Map::load of a table at a key.
MapLoad(s, table, key) ==
    LoadStruct(s, MapKey(TableNamespace(table), <<key>>), TableFields(table))

\* Map::range over a whole table, ascending: each key with its decoded record.
MapRange(s, table) ==
    LET raw == PrefixRange(s, namespaces_with_key(<<TableNamespace(table)>>, <<>>))
    IN [i \in 1..Len(raw) |->
           <<raw[i][1], from_slice_struct(raw[i][2], TableFields(table))>>]

\* The keys and records the tables of state.rs are written with.
john == <<106, 111, 104, 110>>
dandelion == <<100, 97, 110, 100, 101, 108, 105, 111, 110>>
regular == <<114, 101, 103, 117, 108, 97, 114>>
membership1 == <<109, 101, 109, 98, 101, 114, 115, 104, 105, 112, 49>>

TableKeys(table) ==
    CASE table = "people" -> {john}
      [] table = "groups" -> {dandelion}
      [] table = "membership_statuses" -> {regular}
      [] table = "memberships" -> {membership1}

TableRecord(table) ==
    CASE table = "people" ->
            to_vec_Person([name |-> "John", age |-> 32, membership_ids |-> <<"membership1">>])
      [] table = "groups" ->
            to_vec_Group([name |-> "Dandelion", membership_ids |-> <<"membership1">>])
      [] table = "membership_statuses" ->
            to_vec_MembershipStatus([status |-> "Regular", membership_ids |-> <<"membership1">>])
      [] table = "memberships" ->
            to_vec_Membership([person_id |-> "john", group_id |-> "dandelion",
                               membership_status_id |-> "regular"])

StateRsTables == {"people", "groups", "membership_statuses", "memberships"}

\* TABLE.save(store, key, &record) on a table of state.rs
TableSave(table, key) ==
    /\ store' = MapSave(store, table, key, TableRecord(table))
    /\ last' = Call(table, "put", key,
                    MapKey(TableNamespace(table), <<key>>) \in DOMAIN store, Ok(<<>>))
    /\ UNCHANGED <<issued, tally>>

\* TABLE.remove(store, key) on a table of state.rs
TableRemove(table, key) ==
    /\ store' = MapRemove(store, table, key)
    /\ last' = Call(table, "delete", key,
                    MapKey(TableNamespace(table), <<key>>) \in DOMAIN store, Ok(<<>>))
    /\ UNCHANGED <<issued, tally>>

\* instantiate(deps, env, info, msg): STATE.save of the count and the sender
instantiate(sender, count) ==
    /\ store' = StorageSet(store, ItemKey(STATE_ITEM),
                           to_vec_State([count |-> count, owner |-> sender]))
    /\ last' = Call("state", "instantiate", <<>>, ItemKey(STATE_ITEM) \in DOMAIN store,
                    Ok(<<>>))
    /\ tally' = [base |-> count, increments |-> 0]
    /\ UNCHANGED issued

NextTables ==
    \/ \E table \in StateRsTables : \E key \in TableKeys(table) : TableSave(table, key)
    \/ \E table \in StateRsTables : \E key \in TableKeys(table) : TableRemove(table, key)
    \/ NewPeopleSave(addr1, [name |-> "p1", age |-> 12])
    \/ SaveGroup([name |-> "g1"])
    \/ MembershipSave(1, M1)
    \/ MembershipRemove(1)
    \/ instantiate("creator", 17)

SpecTables == Init /\ [][NextTables]_vars

\* Every namespace of the program, and the namespaces a call on a table
\* writes in.
Namespaces == MapTables \cup {"membership", "membership__person", "membership__group",
                              "membership__role", "state", "group_counter"}

WrittenBy(table) ==
    CASE table = "membership" -> {"membership", "membership__person",
                                  "membership__group", "membership__role"}
      [] table = "new_groups" -> {"new_groups", "group_counter"}
      [] OTHER -> {table}

\* What a load or a scan of a table or an index returns: an Item's value, a
\* Map's records in key order, an index's entries in key order.
ViewOf(s, table) ==
    CASE table \in {"state", "group_counter"} -> StorageGet(s, ItemKey(TableNamespace(table)))
      [] table \in {"membership__person", "membership__group", "membership__role"} ->
            PrefixRange(s, namespaces_with_key(<<TableNamespace(table)>>, <<>>))
      [] OTHER -> MapRange(s, table)

\* C9: a call on one table never changes what a load or a scan of any other
\* table or index returns.
C9_NamespacesDisjoint ==
    [][\A table \in Namespaces \ WrittenBy(last'.table) :
          ViewOf(store', table) = ViewOf(store, table)]_vars

-----------------------------------------------------------------------------
(* Save followed by load.                                                  *)

\* The records of test_groups, as values of their types: the first of each
\* table is the one TableRecord encodes.
TableValues(table) ==
    CASE table = "people" ->
            {[name |-> "John", age |-> 32, membership_ids |-> <<"membership1">>],
             [name |-> "John", age |-> 32,
              membership_ids |-> <<"membership1", "membership2">>]}
      [] table = "groups" ->
            {[name |-> "Dandelion", membership_ids |-> <<"membership1">>],
             [name |-> "Autopia", membership_ids |-> <<"membership2">>]}
      [] table = "membership_statuses" ->
            {[status |-> "Regular", membership_ids |-> <<"membership1">>],
             [status |-> "Super Admin", membership_ids |-> <<>>]}
      [] table = "memberships" ->
            {[person_id |-> "john", group_id |-> "dandelion",
              membership_status_id |-> "regular"],
             [person_id |-> "john", group_id |-> "autopia",
              membership_status_id |-> "admin"]}
      [] table = "new_people" ->
            {[name |-> "p1", age |-> 12], [name |-> "p2", age |-> 12]}

\* serde_json::to_vec of a record of a table's type.
to_vec(table, r) ==
    CASE table = "people" -> to_vec_Person(r)
      [] table = "groups" -> to_vec_Group(r)
      [] table = "membership_statuses" -> to_vec_MembershipStatus(r)
      [] table = "memberships" -> to_vec_Membership(r)
      [] table = "new_people" -> to_vec_NewPerson(r)

\* The keys the round trip is made at: the key the table may hold already,
\* and one it never holds.
autopia == <<97, 117, 116, 111, 112, 105, 97>>
RoundTripKeys(table) ==
    IF table = "new_people" THEN {index_string(addr1), index_string(addr2)}
    ELSE TableKeys(table) \cup {autopia}

\* C11: from any reachable store, a load of k right after a successful
\* save(k, r) returns r, on every Map table and on the indexed membership
\* store, whether or not the store held k before; and a load of the
\* identifier save_group returns yields the group it saved.
C11_RoundTrip ==
    /\ \A table \in StateRsTables \cup {"new_people"} :
          \A key \in RoundTripKeys(table), r \in TableValues(table) :
             MapLoad(MapSave(store, table, key, to_vec(table, r)), table, key) = Ok(r)
    /\ \A id \in MembershipIds, m \in NewMemberships :
          LET saved == IndexedMapSave(store, PrimaryKeyOf(id), m)
          IN IsOk(saved[1]) => IndexedMapLoad(saved[2], PrimaryKeyOf(id)) = Ok(m)
    /\ \A group \in NewGroups :
          LET saved == save_group(store, group)
          IN IsOk(saved[1]) =>
                MapLoad(saved[2], "new_groups", U64Key(saved[1][2])) = Ok(group)
    /\ (last.op = "save_group" /\ IsOk(last.res)) =>
          IsOk(MapLoad(store, "new_groups", U64Key(last.res[2])))

\* save_group has just returned an identifier whose load yields the saved
\* group, in a store that holds a person, a legacy group and a membership,
\* so that the saves of the round trip overwrite.
C11_Witness ==
    /\ last.op = "save_group" /\ IsOk(last.res)
    /\ MapLoad(store, "new_groups", U64Key(last.res[2])) = Ok([name |-> "g1"])
    /\ IsOk(MapLoad(store, "people", john))
    /\ IsOk(MapLoad(store, "groups", dandelion))
    /\ IndexedMapLoad(store, PrimaryKeyOf(1)) = Ok(M1)

-----------------------------------------------------------------------------
(* Queries over several values of one attribute.                           *)

\* The scans of one index for each of the values, in the order given, one
\* after the other (the first error if a scan fails).
RECURSIVE query_any(_, _, _)
query_any(s, index, values) ==
    IF values = <<>> THEN Ok(<<>>)
    ELSE LET head == ScanFor(s, index, Head(values))
             rest == query_any(s, index, Tail(values))
         IN IF ~IsOk(head) THEN head
            ELSE IF ~IsOk(rest) THEN rest
            ELSE Ok(head[2] \o rest[2])

\* MEMBERSHIPS.range(..).filter(..) of test_groups, on the membership store:
\* the stored memberships whose role is one of the values.
FilteredByRole(s, roles) ==
    {<<pk, RecordAt(s, pk)>> : pk \in {k \in PrimaryKeys(s) : RecordAt(s, k).role \in roles}}

\* C12: in every reachable state the role scan for Admin followed by the
\* role scan for SuperAdmin holds each stored Membership whose role is Admin
\* or SuperAdmin exactly once and no other Membership: it equals the full
\* scan of the primary store filtered on role in {Admin, SuperAdmin}.
C12_UnionQuery ==
    LET both == query_any(store, "role", <<"Admin", "SuperAdmin">>)
        expected == FilteredByRole(store, {"Admin", "SuperAdmin"})
    IN /\ IsOk(both)
       /\ {both[2][j] : j \in 1..Len(both[2])} = expected
       /\ Len(both[2]) = Cardinality(expected)

-----------------------------------------------------------------------------
(* Persons one of whose identifiers starts with the other's.               *)

addr10 == <<97, 100, 100, 114, 49, 48>>
PrefixAddrs == {addr1, addr10}
PrefixMemberships == [person : PrefixAddrs, group_id : GroupIds, role : Roles]

NextPrefix ==
    \/ \E id \in MembershipIds, m \in PrefixMemberships : MembershipSave(id, m)
    \/ \E id \in MembershipIds : MembershipRemove(id)

SpecPrefix == Init /\ [][NextPrefix]_vars

\* The storage prefix a scan of an index for a value ranges over, and the
\* storage key of the entry of record d stored under primary key k.
ScanPrefix(index, v) == namespaces_with_key(<<idx_namespace(index), PrefixOf(index, v)>>, <<>>)
EntryKey(index, d, k) == MapKey(idx_namespace(index), IndexFn(index, d, k))

\* C13: for every index, an entry key built for a record whose attribute is
\* not v never begins with the scan prefix built for v, whatever the primary
\* keys, also when the bytes of v start the bytes of the other value
\* ("addr1" and "addr10"); so a scan for v returns only records holding v.
C13_PrefixSafety ==
    /\ \A index \in IndexNames : \A d \in PrefixMemberships : \A id \in KnownIds :
          \A v \in (IF index = "person" THEN PrefixAddrs ELSE IndexValues(index))
                      \ {AttrValue(index, d)} :
             ~IsPrefix(ScanPrefix(index, v), EntryKey(index, d, PrimaryKeyOf(id)))
    /\ \A v \in PrefixAddrs :
          LET found == ScanFor(store, "person", v)
          IN /\ IsOk(found)
             /\ \A j \in 1..Len(found[2]) : found[2][j][2].person = v
    /\ \A v \in GroupIds :
          LET found == ScanFor(store, "group", v)
          IN /\ IsOk(found)
             /\ \A j \in 1..Len(found[2]) : found[2][j][2].group_id = v

\* A membership of "addr10" is stored under 1 and one of "addr1" under 256,
\* and each person's scan returns that person's membership only.
C13_Witness ==
    /\ last.op = "save"
    /\ ScanKeys(store, "person", addr10) = {PrimaryKeyOf(1)}
    /\ ScanKeys(store, "person", addr1) = {PrimaryKeyOf(256)}

-----------------------------------------------------------------------------
(* The role discriminants.                                                 *)

\* The byte the claim gives for each role.
RoleByte(role) == IF role = "User" THEN 0 ELSE IF role = "Admin" THEN 1 ELSE 2

\* C14: the key of a Role is one part of one byte, 0 for User, 1 for Admin
\* and 2 for SuperAdmin, defined for the three variants and different for
\* each; and the key the role index function builds for a stored Membership
\* is the role namespace, then that one byte behind its length, then the
\* primary key.
C14_RoleKeyEncoding ==
    /\ \A role \in Roles : RoleKey(role) = << <<RoleByte(role)>> >>
    /\ \A r1, r2 \in Roles : RoleKey(r1) = RoleKey(r2) => r1 = r2
    /\ \A pk \in PrimaryKeys(store) :
          LET d == RecordAt(store, pk)
          IN /\ IndexFn("role", d, pk) = << <<RoleByte(d.role)>>, pk >>
             /\ DOMAIN MultiIndexSave(<<>>, "role", pk, d)
                   = {namespaces_with_key(<<idx_namespace("role")>>,
                                          <<0, 1, RoleByte(d.role)>> \o pk)}

\* Memberships of two different roles are stored, one of them a SuperAdmin.
C14_Witness ==
    /\ last.op = "save"
    /\ \E a, b \in PrimaryKeys(store) :
          /\ RecordAt(store, a).role = "SuperAdmin"
          /\ RecordAt(store, b).role = "User"

-----------------------------------------------------------------------------
(* The counter of contract.rs: execute and query.                          *)

\* The range of State.count, an i32.
I32_MAX == 2147483647
I32_MIN == (-I32_MAX) - 1

\* count += 1 on an i32 in a build without overflow checks.
wrapping_add_one(c) == IF c = I32_MAX THEN I32_MIN ELSE c + 1

\* The outcome of a call that panicked: no result is returned.
Panic(what) == <<"Panic", what>>

\* STATE.load(store) and STATE.save(store, &state)
STATE_load(s) == LoadStruct(s, ItemKey(STATE_ITEM), StateFields)
STATE_save(s, state) == StorageSet(s, ItemKey(STATE_ITEM), to_vec_State(state))

\* try_increment: <<result, store after>>. STATE.update loads the State,
\* applies the closure and saves what it returns. With overflow checks the
\* addition panics at the largest i32, without them it wraps.
try_increment(s, overflow_checks) ==
    LET loaded == STATE_load(s)
    IN IF ~IsOk(loaded) THEN <<loaded, s>>
       ELSE IF loaded[2].count = I32_MAX /\ overflow_checks
       THEN <<Panic("attempt to add with overflow"), s>>
       ELSE <<Ok(<<>>),
              STATE_save(s, [loaded[2] EXCEPT !.count = wrapping_add_one(@)])>>

\* The count is set whoever the sender is.
try_reset_unchecked(s, sender, count) ==
    LET loaded == STATE_load(s)
    IN IF ~IsOk(loaded) THEN <<loaded, s>>
       ELSE <<Ok(<<>>), STATE_save(s, [loaded[2] EXCEPT !.count = count])>>

\* Any sender may reset, and becomes the owner.
try_reset_takes_owner(s, sender, count) ==
    LET loaded == STATE_load(s)
    IN IF ~IsOk(loaded) THEN <<loaded, s>>
       ELSE <<Ok(<<>>), STATE_save(s, [count |-> count, owner |-> sender])>>

\* try_reset: <<result, store after>>. The closure returns Unauthorized for
\* a sender other than the stored owner, and then nothing is saved.
try_reset(s, sender, count) ==
    LET loaded == STATE_load(s)
    IN IF ~IsOk(loaded) THEN <<loaded, s>>
       ELSE IF sender # loaded[2].owner THEN <<Err("Unauthorized"), s>>
       ELSE <<Ok(<<>>), STATE_save(s, [loaded[2] EXCEPT !.count = count])>>

\* execute: the match on the message.
execute(s, sender, msg, overflow_checks) ==
    CASE msg.op = "Increment" -> try_increment(s, overflow_checks)
      [] msg.op = "Reset" -> try_reset(s, sender, msg.count)

\* query_count: the count of the stored State.
query_count(s) ==
    LET loaded == STATE_load(s)
    IN IF IsOk(loaded) THEN Ok(loaded[2].count) ELSE loaded

\* The senders and the counts the entry points are called with.
Senders == {"creator", "anyone"}
InstantiateCounts == {17, I32_MAX}
ResetCounts == {5, I32_MAX - 1}
ExecuteMsgs == {[op |-> "Increment"]} \cup {[op |-> "Reset", count |-> c] : c \in ResetCounts}

IncrementsSoFar == IF tally = None THEN 0 ELSE tally.increments

\* execute(deps, env, info, msg), in a build with or without overflow checks
Execute(sender, msg, overflow_checks) ==
    LET r == execute(store, sender, msg, overflow_checks)
    IN /\ IF msg.op = "Increment" THEN IncrementsSoFar < MaxIncrements ELSE TRUE
       /\ store' = r[2]
       /\ last' = [table |-> "state", op |-> msg.op, key |-> <<>>,
                   existed |-> ItemKey(STATE_ITEM) \in DOMAIN store, res |-> r[1],
                   sender |-> sender, msg |-> msg]
       /\ tally' = IF ~IsOk(r[1]) THEN tally
                   ELSE IF msg.op = "Increment"
                   THEN [tally EXCEPT !.increments = @ + 1]
                   ELSE [base |-> msg.count, increments |-> 0]
       /\ UNCHANGED issued

NextContract ==
    \/ \E sender \in Senders, count \in InstantiateCounts : instantiate(sender, count)
    \/ \E sender \in Senders, msg \in ExecuteMsgs, overflow_checks \in BOOLEAN :
          Execute(sender, msg, overflow_checks)

SpecContract == Init /\ [][NextContract]_vars

\* C15: a Reset sent by anyone but the stored owner returns Unauthorized and
\* leaves the stored State, count and owner, as it was; a Reset sent by the
\* owner succeeds and sets the count to the one given, the owner staying.
C15_ResetAuthorization ==
    [][(last'.op = "Reset" /\ last'.existed) =>
          LET before == STATE_load(store)[2]
          IN IF last'.sender # before.owner
             THEN /\ last'.res = Err("Unauthorized")
                  /\ store' = store
             ELSE /\ IsOk(last'.res)
                  /\ STATE_load(store')
                        = Ok([count |-> last'.msg.count, owner |-> before.owner])]_vars

\* The owner has reset the count to 5, and then another sender's Reset to
\* another count has been refused.
C15_Witness ==
    /\ last.op = "Reset" /\ last.res = Err("Unauthorized")
    /\ last.msg.count # 5
    /\ tally = [base |-> 5, increments |-> 0]
    /\ query_count(store) = Ok(5)

\* C16: once instantiated, GetCount returns the count last set, by
\* instantiate or by a Reset that succeeded, plus the number of Increments
\* executed since; and an Increment succeeds whoever sends it.
C16_CounterTracking ==
    (tally # None) =>
       /\ tally.base <= I32_MAX - tally.increments
       /\ query_count(store) = Ok(tally.base + tally.increments)
       /\ last.op = "Increment" => IsOk(last.res)

-----------------------------------------------------------------------------
(* Overwriting a membership.                                               *)

\* The entries of an index: each entry key with its value.
IndexEntries(s, index) == [k \in IndexEntryKeys(s, index) |-> s[k]]

\* C17: when memberships().save overwrites the Membership at key k, then in
\* each of the person and group indexes: if the indexed value changed, the
\* entry of the old value and k is gone and the entry of the new value and k
\* is there, every other entry staying; if it did not change, the index's
\* entries are exactly what they were; and afterwards the index holds k
\* under one value only, the new record's.
C17_OverwriteRederivesEntries ==
    [][(last'.op = "save" /\ last'.existed /\ IsOk(last'.res)) =>
          LET pk == last'.key
              old == RecordAt(store, pk)
              new == RecordAt(store', pk)
          IN \A index \in {"person", "group"} :
                /\ IF AttrValue(index, old) # AttrValue(index, new)
                   THEN /\ EntryKey(index, old, pk) \notin DOMAIN store'
                        /\ EntryKey(index, new, pk) \in DOMAIN store'
                        /\ IndexEntryKeys(store', index)
                              = (IndexEntryKeys(store, index) \ {EntryKey(index, old, pk)})
                                   \cup {EntryKey(index, new, pk)}
                   ELSE IndexEntries(store', index) = IndexEntries(store, index)
                /\ {k \in IndexEntryKeys(store', index) : EntryPk(store', k) = pk}
                      = {EntryKey(index, new, pk)}]_vars

\* A membership has been overwritten while another membership of the same
\* group and of another person is stored, whose entries had to stay.
C17_Witness ==
    /\ last.op = "save" /\ last.existed /\ IsOk(last.res)
    /\ \E other \in PrimaryKeys(store) \ {last.key} :
          /\ RecordAt(store, other).group_id = RecordAt(store, last.key).group_id
          /\ RecordAt(store, other).person # RecordAt(store, last.key).person
          /\ ScanKeys(store, "group", RecordAt(store, other).group_id) = {other, last.key}

-----------------------------------------------------------------------------
(* Identifiers allocated with no record saved under them.                  *)

\* next_group_counter(store) called by a caller that then saves no record
\* under the identifier.
NextGroupCounter ==
    /\ CounterValue(store) < MaxGroups
    /\ LET r == next_group_counter(store)
       IN /\ store' = r[2]
          /\ last' = Call("group_counter", "next_group_counter", <<>>,
                          ItemKey(GROUP_COUNTER) \in DOMAIN store, r[1])
          /\ issued' = IF IsOk(r[1]) THEN Append(issued, r[1][2]) ELSE issued
          /\ UNCHANGED tally

NextAllocator ==
    \/ NextGroupCounter
    \/ \E group \in NewGroups : SaveGroup(group)
    \/ \E addr \in Addrs, person \in NewPersons : NewPeopleSave(addr, person)

SpecAllocator == Init /\ [][NextAllocator]_vars

\* The identifiers allocated so far under which no group is stored.
Gaps(s, ids) == {ids[i] : i \in 1..Len(ids)} \ GroupKeysPresent(s)

\* C18: an identifier next_group_counter has persisted stays consumed when
\* no record gets saved under it: every later allocation returns an
\* identifier strictly larger than the persisted counter, the counter never
\* goes back, and an identifier left without a group stays a gap.
C18_IdentifierStaysConsumed ==
    [][/\ StrictlyIncreasing(issued')
       /\ CounterValue(store') >= CounterValue(store)
       /\ Len(issued') > Len(issued) =>
             /\ issued'[Len(issued')] > CounterValue(store)
             /\ CounterValue(store') = issued'[Len(issued')]
       /\ Gaps(store, issued) \subseteq Gaps(store', issued')]_vars

\* Identifier 1 was allocated and no group saved under it; the next
\* save_group returned 2, and 1 is a gap.
C18_Witness ==
    /\ last.op = "save_group" /\ last.res = Ok(2)
    /\ issued = <<1, 2>>
    /\ Gaps(store, issued) = {1}

-----------------------------------------------------------------------------
(* What a save leaves behind, and the values the allocator returns.        *)

\* C19: a memberships().save that cannot complete returns an error and
\* leaves none of its writes in the store; one that returns success has
\* written the primary record and the record's entry in every index: person,
\* group and role.
C19_SaveIsAllOrNothing ==
    [][(last'.op = "save") =>
          IF IsOk(last'.res)
          THEN /\ IsOk(IndexedMapLoad(store', last'.key))
               /\ \A index \in IndexNames :
                     EntryKey(index, RecordAt(store', last'.key), last'.key) \in DOMAIN store'
          ELSE store' = store]_vars

\* C20: where the group counter is absent it counts as 0; next_group_counter
\* returns the persisted value plus 1 and persists it, 1 the first time; so
\* the n-th save_group on a fresh store returns n and stores its group under
\* key n.
C20_AllocatorValues ==
    /\ (ItemKey(GROUP_COUNTER) \notin DOMAIN store) <=> (issued = <<>>)
    /\ CounterValue(store) = Len(issued)
    /\ LET r == next_group_counter(store)
       IN /\ r[1] = Ok(CounterValue(store) + 1)
          /\ MayLoadNum(r[2], ItemKey(GROUP_COUNTER)) = Ok(Some(CounterValue(store) + 1))
    /\ \A n \in 1..Len(issued) : issued[n] = n
    /\ GroupKeysPresent(store) = 1..Len(issued)
    /\ last.op = "save_group" =>
          /\ last.res = Ok(Len(issued))
          /\ IsOk(MapLoad(store, "new_groups", U64Key(Len(issued))))

\* The second save_group on a fresh store has returned 2, and groups are
\* stored under keys 1 and 2.
C20_Witness ==
    /\ last.op = "save_group" /\ last.res = Ok(2)
    /\ issued = <<1, 2>>
    /\ \A n \in {1, 2} : IsOk(MapLoad(store, "new_groups", U64Key(n)))
    /\ MayLoadNum(store, ItemKey(GROUP_COUNTER)) = Ok(Some(2))

-----------------------------------------------------------------------------
(* The indexes save and remove maintain.                                   *)

Maintained == {get_indexes[i] : i \in 1..Len(get_indexes)}

\* A store in which the role index holds an entry for primary key pk, put
\* there through idx.role itself.
WithRoleEntry(s, pk) == MultiIndexSave(s, "role", pk, M2)

\* C21: memberships().save and remove maintain the indexes get_indexes
\* returns, person and group, and no other: a save writes the record's entry
\* in exactly those, a step changes the entries of no index outside them,
\* and no save or remove creates or deletes an entry under
\* 'membership__role', also where that namespace holds one.
C21_MaintainedIndexes ==
    [][(last'.op \in {"save", "remove"}) =>
          LET pk == last'.key
              seeded == WithRoleEntry(store, pk)
          IN /\ Maintained = {"person", "group"}
             /\ \A index \in IndexNames \ Maintained :
                   IndexEntries(store', index) = IndexEntries(store, index)
             /\ (last'.op = "save" /\ IsOk(last'.res)) =>
                   {index \in IndexNames :
                       EntryKey(index, RecordAt(store', pk), pk) \in DOMAIN store'}
                      = Maintained
             /\ (last'.op = "remove" /\ last'.existed) =>
                   \A index \in Maintained :
                      EntryKey(index, RecordAt(store, pk), pk) \notin DOMAIN store'
             /\ IndexEntries(IndexedMapSave(seeded, pk, M1)[2], "role")
                   = IndexEntries(seeded, "role")
             /\ IndexEntries(IndexedMapRemove(seeded, pk)[2], "role")
                   = IndexEntries(seeded, "role")]_vars

\* An Admin membership has been saved over another record, its person and
\* group entries are there, and 'membership__role' holds nothing.
C21_Witness ==
    /\ last.op = "save" /\ last.existed /\ IsOk(last.res)
    /\ RecordAt(store, last.key).role = "Admin"
    /\ EntryKey("person", RecordAt(store, last.key), last.key) \in DOMAIN store
    /\ EntryKey("group", RecordAt(store, last.key), last.key) \in DOMAIN store
    /\ IndexEntryKeys(store, "role") = {}

-----------------------------------------------------------------------------
(* The owner of the counter.                                               *)

\* The senders whose Reset the stored State lets through.
MayReset(s) == {sender \in Senders : IsOk(try_reset(s, sender, 5)[1])}

\* C22: no execute message, Increment or Reset, accepted or refused, from
\* any sender, changes the owner instantiate stored; so the senders allowed
\* to reset are the same after it as before.
C22_OwnerNeverChanges ==
    [][(last'.op \in {"Increment", "Reset"} /\ last'.existed) =>
          /\ IsOk(STATE_load(store'))
          /\ STATE_load(store')[2].owner = STATE_load(store)[2].owner
          /\ MayReset(store') = MayReset(store)
          /\ MayReset(store') = {STATE_load(store)[2].owner}]_vars

\* The owner has reset the count, two Increments by the other sender have
\* followed, and the owner is still the only sender allowed to reset.
C22_Witness ==
    /\ last.op = "Increment" /\ IsOk(last.res)
    /\ tally = [base |-> 5, increments |-> 2]
    /\ last.sender \notin MayReset(store)
    /\ MayReset(store) = {STATE_load(store)[2].owner}

====
